---- MODULE Spec2Model ----
(***************************************************************************)
(* Indexing and search core of streamlit_app.py: extract_text_from_pdf,    *)
(* build_search_corpus (thread pool, aggregation, json.dump to INDEX_FILE) *)
(* and search_corpus (json.load, case-insensitive substring search),       *)
(* together with the corpus_built flag of the Streamlit session.           *)
(*                                                                         *)
(* Python values are modelled as follows.                                  *)
(*   str          a sequence of one-character strings                      *)
(*   dict         a sequence of entries in insertion order, keys distinct  *)
(*   dict key     IntKey(n) for the int n, StrKey(s) for the str s         *)
(*   INDEX_FILE   [kind, entries]: the JSON document the file holds        *)
(***************************************************************************)
EXTENDS Integers, Sequences, FiniteSets, TLC

(* ---------------------------- bounds ----------------------------------- *)

\* Largest number of PDF files under DOWNLOAD_DIR.
MaxFiles == 3

\* Size of the parsing pool: MAX_WORKERS_PARSING is read from the
\* environment (default "4"); here smaller than the largest batch of files.
MAX_WORKERS_PARSING == 2

(* ----------------------- Python strings -------------------------------- *)

\* str.lower() on one character.
LowerChar(c) ==
    CASE c = "A" -> "a"
      [] c = "B" -> "b"
      [] OTHER -> c

\* Mutant of Lower: the text is searched as it is written.
Lower_Identity(s) == s

\* str.lower()
Lower(s) == [i \in 1..Len(s) |-> LowerChar(s[i])]

\* str.strip() leaves the empty string exactly when every character is
\* whitespace.
StripIsEmpty(s) == \A i \in 1..Len(s) : s[i] = " "

\* needle in hay
Contains(needle, hay) ==
    \E k \in 0..(Len(hay) - Len(needle)) :
        \A i \in 1..Len(needle) : hay[k + i] = needle[i]

\* validate_search_term
validate_search_term(term) ==
    IF term = <<>> \/ StripIsEmpty(term) THEN FALSE ELSE TRUE

(* ----------------------- dictionary keys ------------------------------- *)

IntKey(n) == [t |-> "int", n |-> n, s |-> <<>>]
StrKey(s) == [t |-> "str", n |-> 0, s |-> s]

RECURSIVE IntToStr(_)
\* str(n) for n >= 0: the decimal digits, most significant first.
IntToStr(n) == IF n < 10 THEN <<n>> ELSE Append(IntToStr(n \div 10), n % 10)

\* The key json.dump writes for a dict key: an int key becomes its decimal
\* string, a str key is written as it is.
JsonKey(k) == IF k.t = "int" THEN StrKey(IntToStr(k.n)) ELSE k

(* ----------------------- the PDF files --------------------------------- *)

\* What pypdf does on one page: extract_text() returns text or raises.
Page(text) == [raises |-> FALSE, text |-> text]
BadPage == [raises |-> TRUE, text |-> <<>>]
NoText == Page(<<>>)

\* The files that may lie under DOWNLOAD_DIR, by relative path.
AllFiles == {"a/1.pdf", "b/2.pdf", "c.pdf", "d.pdf", "e.pdf"}

\* PdfReader(file_path) raises (truncated or encrypted file).
PdfOpenRaises(f) == f = "c.pdf"

\* reader.pages of each file.
PdfPages(f) ==
    CASE f = "a/1.pdf" -> << Page(<<"A", "b">>), NoText, Page(<<"b", "a">>) >>
      [] f = "b/2.pdf" -> << NoText, NoText >>
      [] f = "c.pdf"   -> << >>
      [] f = "d.pdf"   -> << Page(<<"a", " ", "B">>), BadPage, Page(<<"a">>) >>
      [] f = "e.pdf"   -> << NoText, Page(<<"a">>), NoText, NoText, NoText,
                             NoText, NoText, NoText, NoText,
                             Page(<<"b", "A">>), Page(<<"a", "b">>) >>

RECURSIVE ExtractPages(_, _, _)
\* The loop of extract_text_from_pdf from page i on (i is 1-based here,
\* i.e. the code's i + 1); an exception ends the loop and keeps page_data.
ExtractPages(pages, i, page_data) ==
    IF i > Len(pages) THEN page_data
    ELSE IF pages[i].raises THEN page_data
    ELSE IF pages[i].text # <<>>
         THEN ExtractPages(pages, i + 1,
                  Append(page_data, [key |-> IntKey(i), text |-> pages[i].text]))
         ELSE ExtractPages(pages, i + 1, page_data)

extract_text_from_pdf(f) ==
    [file |-> f,
     content |-> IF PdfOpenRaises(f) THEN <<>>
                 ELSE ExtractPages(PdfPages(f), 1, <<>>)]

(* ----------------------- dictionaries ---------------------------------- *)

DictKeys(d) == {d[i].file : i \in 1..Len(d)}

\* Mutant of DictSet: the dict is rebound to one holding only the new key.
DictSet_Rebind(d, k, v) == <<[file |-> k, pages |-> v]>>

\* d[k] = v: replaces the value of an existing key in place, appends a new
\* key at the end.
DictSet(d, k, v) ==
    IF k \in DictKeys(d)
    THEN [i \in 1..Len(d) |-> IF d[i].file = k THEN [file |-> k, pages |-> v]
                                               ELSE d[i]]
    ELSE Append(d, [file |-> k, pages |-> v])

(* ----------------------- the index file -------------------------------- *)

FileOf(kind, entries) == [kind |-> kind, entries |-> entries]

Absent == FileOf("absent", <<>>)        \* INDEX_FILE does not exist
Unreadable == FileOf("unreadable", <<>>) \* exists, open() raises
NotJson == FileOf("notjson", <<>>)      \* json.load raises (also a truncated file)
JsonList == FileOf("jsonlist", <<>>)    \* valid JSON, a list:            []
BadPages == FileOf("badpages", <<>>)    \* valid JSON, pages not a dict:  {"x": 1}
BadText == FileOf("badtext", <<>>)      \* valid JSON, text not a str:    {"x": {"1": 5}}
\* An index that an earlier run of the program left behind.
OldIndex ==
    FileOf("corpus",
           << [file |-> "old.pdf",
               pages |-> << [key |-> StrKey(<<1>>), text |-> <<"a", "B">>] >>] >>)
NoFile == FileOf("none", <<>>)          \* no build has saved anything yet

\* The document json.dump(corpus, f) writes.
JsonDump(corpus) ==
    FileOf("corpus",
           [i \in 1..Len(corpus) |->
               [file |-> corpus[i].file,
                pages |-> [j \in 1..Len(corpus[i].pages) |->
                              [key |-> JsonKey(corpus[i].pages[j].key),
                               text |-> corpus[i].pages[j].text]]]])

\* INDEX_FILE.exists()
Exists(file) == file.kind # "absent"

(* ----------------------- search_corpus --------------------------------- *)

RECURSIVE MatchedPages(_, _, _)
\* The inner loop of search_corpus over pages.items(), from position j.
MatchedPages(pages, term, j) ==
    IF j > Len(pages) THEN <<>>
    ELSE IF Contains(term, Lower(pages[j].text))
         THEN <<pages[j].key>> \o MatchedPages(pages, term, j + 1)
         ELSE MatchedPages(pages, term, j + 1)

RECURSIVE SearchLoop(_, _, _)
\* The outer loop of search_corpus over corpus.items(), from position i.
SearchLoop(entries, term, i) ==
    IF i > Len(entries) THEN <<>>
    ELSE LET matched_pages == MatchedPages(entries[i].pages, term, 1)
         IN  IF matched_pages # <<>>
             THEN <<[file |-> entries[i].file, pages |-> matched_pages]>>
                      \o SearchLoop(entries, term, i + 1)
             ELSE SearchLoop(entries, term, i + 1)

Returned(results) == [raised |-> FALSE, results |-> results]
Raised == [raised |-> TRUE, results |-> <<>>]

\* search_corpus(term) against the index file: the list it returns, or the
\* exception that leaves it.
search_corpus(term, file) ==
    IF ~validate_search_term(term) THEN Returned(<<>>)
    ELSE IF ~Exists(file) THEN Returned(<<>>)
    ELSE IF file.kind \in {"unreadable", "notjson"} THEN Returned(<<>>)
    ELSE IF file.kind \in {"jsonlist", "badpages", "badtext"} THEN Raised
    ELSE Returned(SearchLoop(file.entries, Lower(term), 1))

(* ----------------------- state ----------------------------------------- *)

VARIABLES
    dir,            \* the *.pdf files under DOWNLOAD_DIR (relative paths)
    indexFile,      \* what INDEX_FILE holds
    corpus_built,   \* st.session_state.corpus_built
    pc,             \* "idle", or "parsing" inside build_search_corpus
    task,           \* build: state of the future of each file
    corpus,         \* build: the corpus dict
    completed,      \* build: completed
    total_files,    \* build: total_files
    progress,       \* build: the values passed to progress_bar.progress
    status_text,    \* the text last given to status_text.text
    search,         \* the last call of search_corpus and what came of it
    lastSaved       \* history: the document the last successful json.dump wrote

vars == <<dir, indexFile, corpus_built, pc, task, corpus, completed,
          total_files, progress, status_text, search, lastSaved>>

build_locals == <<task, corpus, completed, total_files, progress>>

\* The search terms tried.
SearchTerms == { <<>>, <<" ">>, <<"a">>, <<"B">>, <<"A", "b">>, <<"b", "b">> }

NoSearch == [called |-> FALSE, term |-> <<>>, raised |-> FALSE, results |-> <<>>]

\* The files DOWNLOAD_DIR may hold.
Directories == {d \in SUBSET AllFiles : Cardinality(d) <= MaxFiles}

\* The index files the program may find when it starts.
InitialIndexFiles ==
    {Absent, Unreadable, NotJson, JsonList, BadPages, BadText, OldIndex}

\* Mutant of Fraction: progress is reported before completed is incremented.
Fraction_Stale(num, den) == [num |-> num - 1, den |-> den]

\* completed / total_files, kept as the exact fraction.
Fraction(num, den) == [num |-> num, den |-> den]

Init ==
    /\ dir \in Directories
    /\ indexFile \in InitialIndexFiles
    /\ corpus_built = Exists(indexFile)
    /\ pc = "idle"
    /\ task = [f \in {} |-> "queued"]
    /\ corpus = <<>>
    /\ completed = 0
    /\ total_files = 0
    /\ progress = <<>>
    /\ status_text = ""
    /\ search = NoSearch
    /\ lastSaved = NoFile

(* ----------------------- session -------------------------------------- *)

\* The first script run of a new session: corpus_built is not in
\* st.session_state yet and initialize_session_state sets it; nothing of the
\* previous run's widgets and locals is left.  (On a rerun within a session
\* the key is there and initialize_session_state changes nothing.)
InitializeSessionState ==
    /\ pc = "idle"
    /\ corpus_built' = Exists(indexFile)
    /\ task' = [f \in {} |-> "queued"]
    /\ corpus' = <<>>
    /\ completed' = 0
    /\ total_files' = 0
    /\ progress' = <<>>
    /\ status_text' = ""
    /\ search' = NoSearch
    /\ UNCHANGED <<dir, indexFile, pc, lastSaved>>

(* ----------------------- build_search_corpus -------------------------- *)

\* Mutant of BuildNoFiles: no early return, the empty corpus is written.
BuildNoFiles_Writes ==
    /\ pc = "idle"
    /\ Cardinality(dir) = 0
    /\ total_files' = 0
    /\ corpus' = <<>>
    /\ task' = [f \in {} |-> "queued"]
    /\ completed' = 0
    /\ progress' = <<>>
    /\ indexFile' = JsonDump(<<>>)
    /\ lastSaved' = JsonDump(<<>>)
    /\ corpus_built' = TRUE
    /\ status_text' = "Index Built Successfully."
    /\ search' = NoSearch
    /\ UNCHANGED <<dir, pc>>

\* build_search_corpus when rglob finds no file: status text and return.
BuildNoFiles ==
    /\ pc = "idle"
    /\ Cardinality(dir) = 0
    /\ total_files' = 0
    /\ corpus' = <<>>
    /\ task' = [f \in {} |-> "queued"]
    /\ completed' = 0
    /\ progress' = <<>>
    /\ status_text' = "No PDF files found to index."
    /\ search' = NoSearch
    /\ UNCHANGED <<dir, indexFile, corpus_built, pc, lastSaved>>

\* build_search_corpus up to the submission of one task per file.
BuildDispatch ==
    /\ pc = "idle"
    /\ Cardinality(dir) # 0
    /\ total_files' = Cardinality(dir)
    /\ corpus' = <<>>
    /\ task' = [f \in dir |-> "queued"]
    /\ completed' = 0
    /\ progress' = <<>>
    /\ status_text' = "Parsing PDFs for text..."
    /\ search' = NoSearch
    /\ pc' = "parsing"
    /\ UNCHANGED <<dir, indexFile, corpus_built, lastSaved>>

Running == {f \in DOMAIN task : task[f] = "running"}

\* A free worker of the pool takes a queued task.
WorkerStart(f) ==
    /\ pc = "parsing"
    /\ f \in DOMAIN task
    /\ task[f] = "queued"
    /\ Cardinality(Running) < MAX_WORKERS_PARSING
    /\ task' = [task EXCEPT ![f] = "running"]
    /\ UNCHANGED <<dir, indexFile, corpus_built, pc, corpus, completed,
                   total_files, progress, status_text, search, lastSaved>>

\* The worker returns from extract_text_from_pdf: the future is done.
WorkerFinish(f) ==
    /\ pc = "parsing"
    /\ f \in DOMAIN task
    /\ task[f] = "running"
    /\ task' = [task EXCEPT ![f] = "done"]
    /\ UNCHANGED <<dir, indexFile, corpus_built, pc, corpus, completed,
                   total_files, progress, status_text, search, lastSaved>>

\* Mutant of Aggregate: every result is stored, also one without content.
Aggregate_NoFilter(c, result) == DictSet(c, result.file, result.content)

\* future.result() and the aggregation of one result.
Aggregate(c, result) ==
    IF result.content # <<>> THEN DictSet(c, result.file, result.content)
    ELSE c

\* Mutant of Collect: extract_text_from_pdf lets its exception through, and
\* future.result() raises it out of build_search_corpus.
Collect_Propagates(f) ==
    /\ pc = "parsing"
    /\ f \in DOMAIN task
    /\ task[f] = "done"
    /\ IF PdfOpenRaises(f) \/ \E i \in 1..Len(PdfPages(f)) : PdfPages(f)[i].raises
       THEN /\ pc' = "idle"
            /\ UNCHANGED <<task, corpus, completed, progress>>
       ELSE /\ task' = [task EXCEPT ![f] = "collected"]
            /\ corpus' = Aggregate(corpus, extract_text_from_pdf(f))
            /\ completed' = completed + 1
            /\ progress' = Append(progress, Fraction(completed + 1, total_files))
            /\ pc' = pc
    /\ UNCHANGED <<dir, indexFile, corpus_built, total_files,
                   status_text, search, lastSaved>>

\* One iteration of the as_completed loop, for a future that is done.
Collect(f) ==
    /\ pc = "parsing"
    /\ f \in DOMAIN task
    /\ task[f] = "done"
    /\ task' = [task EXCEPT ![f] = "collected"]
    /\ corpus' = Aggregate(corpus, extract_text_from_pdf(f))
    /\ completed' = completed + 1
    /\ progress' = Append(progress, Fraction(completed + 1, total_files))
    /\ UNCHANGED <<dir, indexFile, corpus_built, pc, total_files,
                   status_text, search, lastSaved>>

\* as_completed is exhausted and the executor has shut down.
PoolDone == \A f \in DOMAIN task : task[f] = "collected"

\* The write succeeds.
WriteIndex ==
    /\ pc = "parsing"
    /\ PoolDone
    /\ indexFile' = JsonDump(corpus)
    /\ lastSaved' = JsonDump(corpus)
    /\ corpus_built' = TRUE
    /\ status_text' = "Index Built Successfully."
    /\ pc' = "idle"
    /\ UNCHANGED <<dir, build_locals, search>>

\* open(INDEX_FILE, "w") raises: the file is as it was.
WriteOpenFails ==
    /\ pc = "parsing"
    /\ PoolDone
    /\ status_text' = "Error building search index."
    /\ pc' = "idle"
    /\ UNCHANGED <<dir, indexFile, corpus_built, build_locals, search,
                   lastSaved>>

\* json.dump (or the flush on close) raises after open truncated the file:
\* the file holds a proper prefix of the document.
WriteDumpFails ==
    /\ pc = "parsing"
    /\ PoolDone
    /\ indexFile' = NotJson
    /\ status_text' = "Error building search index."
    /\ pc' = "idle"
    /\ UNCHANGED <<dir, corpus_built, build_locals, search, lastSaved>>

(* ----------------------- search --------------------------------------- *)

\* A script run that calls search_corpus(term).
Search(term) ==
    /\ pc = "idle"
    /\ LET r == search_corpus(term, indexFile)
       IN  search' = [called |-> TRUE, term |-> term,
                      raised |-> r.raised, results |-> r.results]
    /\ task' = [f \in {} |-> "queued"]
    /\ corpus' = <<>>
    /\ completed' = 0
    /\ total_files' = 0
    /\ progress' = <<>>
    /\ status_text' = ""
    /\ UNCHANGED <<dir, indexFile, corpus_built, pc, lastSaved>>

(* ----------------------- specification -------------------------------- *)

BuildStep ==
    \/ \E f \in DOMAIN task : WorkerStart(f)
    \/ \E f \in DOMAIN task : WorkerFinish(f)
    \/ \E f \in DOMAIN task : Collect(f)
    \/ WriteIndex
    \/ WriteOpenFails
    \/ WriteDumpFails

Next ==
    \/ InitializeSessionState
    \/ BuildNoFiles
    \/ BuildDispatch
    \/ \E f \in AllFiles : WorkerStart(f)
    \/ \E f \in AllFiles : WorkerFinish(f)
    \/ \E f \in AllFiles : Collect(f)
    \/ WriteIndex
    \/ WriteOpenFails
    \/ WriteDumpFails
    \/ \E term \in SearchTerms : Search(term)

Spec == Init /\ [][Next]_vars

\* The pool's threads run and the coordinator is never suspended for good.
FairSpec == Spec /\ WF_vars(BuildStep)

(* ----------------------- what the files hold --------------------------- *)

\* Extraction of f met an exception (in PdfReader or on some page).
ExtractionFailed(f) ==
    PdfOpenRaises(f) \/ \E i \in 1..Len(PdfPages(f)) : PdfPages(f)[i].raises

\* The pages of f that yield non-empty text before any exception.
TextPages(f) ==
    {i \in 1..Len(PdfPages(f)) :
        /\ ~PdfOpenRaises(f)
        /\ \A j \in 1..i : ~PdfPages(f)[j].raises
        /\ PdfPages(f)[i].text # <<>>}

\* The term occurs in the text, letter case ignored.
OccursIn(term, text) ==
    \E k \in 0..(Len(text) - Len(term)) :
        \A i \in 1..Len(term) : LowerChar(text[k + i]) = LowerChar(term[i])

\* The pages of f a search for the term has to list.
MatchingPages(f, term) ==
    {i \in TextPages(f) : OccursIn(term, PdfPages(f)[i].text)}

RECURSIVE DigitsValue(_)
DigitsValue(s) ==
    IF s = <<>> THEN 0 ELSE 10 * DigitsValue(SubSeq(s, 1, Len(s) - 1)) + s[Len(s)]

\* The number a page key stands for.
KeyValue(k) == IF k.t = "int" THEN k.n ELSE DigitsValue(k.s)

Range(seq) == {seq[i] : i \in 1..Len(seq)}

\* The tasks of the build have all been collected.
BuildFinished == total_files >= 1 /\ completed = total_files

(* ----------------------- C1 ------------------------------------------- *)

C2_ProgressMonotone ==
    /\ Len(progress) = completed
    /\ \A i \in 1..Len(progress) : \A j \in i..Len(progress) :
          progress[i].num * progress[j].den <= progress[j].num * progress[i].den
    /\ (pc = "idle" /\ total_files >= 1) =>
          /\ Len(progress) = total_files
          /\ progress[Len(progress)].num = progress[Len(progress)].den

C2_Witness ==
    /\ pc = "idle"
    /\ total_files = 3
    /\ Len(progress) = 3
    /\ progress[2] = Fraction(2, 3)

(* ----------------------- C3 ------------------------------------------- *)

\* C3: every page number in a search match is the integer that
\* extract_text_from_pdf stored as the page key.
C3_PageNumbersAreInts ==
    (search.called /\ ~search.raised /\ indexFile = lastSaved) =>
        \A r \in Range(search.results) : \A k \in Range(r.pages) :
            \E i \in TextPages(r.file) : k = IntKey(i)

(* ----------------------- C4 ------------------------------------------- *)

\* C4: search_corpus never raises, and on an absent, unreadable, non-JSON or
\* wrongly shaped index it returns the empty list.
C4_SearchNeverRaises ==
    search.called =>
        /\ ~search.raised
        /\ indexFile.kind # "corpus" => search.results = <<>>

(* ----------------------- C5 ------------------------------------------- *)

\* C5: a build whose write fails reports the failure and leaves the
\* corpus_built flag not set.
C5_FailedWriteFlagNotSet ==
    [][(WriteOpenFails \/ WriteDumpFails) =>
          /\ status_text' = "Error building search index."
          /\ corpus_built' = FALSE]_vars

(* ----------------------- C6 ------------------------------------------- *)

\* C6: a build that finds no PDF file leaves the index file and the
\* corpus_built flag as they were.
C6_NoFilesNoWrite ==
    [][(pc = "idle" /\ dir = {} /\ status_text' # "") =>
          /\ indexFile' = indexFile
          /\ corpus_built' = corpus_built
          /\ lastSaved' = lastSaved]_vars

C6_Witness ==
    /\ status_text = "No PDF files found to index."
    /\ indexFile = OldIndex
    /\ corpus_built = TRUE

(* ----------------------- C7 ------------------------------------------- *)

\* C7: for a non-blank term and an index written by a build, the result
\* holds one match per file that has a page containing the term (letter
\* case ignored) and no other, and the pages of a match are exactly the
\* numbers of the matching pages, each once, in ascending numeric order.
C7_SearchResultExact ==
    (search.called /\ validate_search_term(search.term)
        /\ lastSaved # NoFile /\ indexFile = lastSaved) =>
        /\ ~search.raised
        /\ {r.file : r \in Range(search.results)}
              = {f \in dir : MatchingPages(f, search.term) # {}}
        /\ \A i \in 1..Len(search.results) : \A j \in 1..Len(search.results) :
              search.results[i].file = search.results[j].file => i = j
        /\ \A r \in Range(search.results) :
              /\ {KeyValue(k) : k \in Range(r.pages)}
                    = MatchingPages(r.file, search.term)
              /\ \A i \in 1..Len(r.pages) : \A j \in 1..Len(r.pages) :
                    i < j => KeyValue(r.pages[i]) < KeyValue(r.pages[j])

C7_Witness ==
    /\ search.called
    /\ search.term = <<"a">>
    /\ indexFile = lastSaved
    /\ Len(search.results) = 2
    /\ \E r \in Range(search.results) :
          /\ r.file = "e.pdf"
          /\ Len(r.pages) = 3
          /\ KeyValue(r.pages[1]) = 2
          /\ KeyValue(r.pages[3]) = 11

(* ----------------------- C8 ------------------------------------------- *)

\* Two index documents hold the same mapping of file to pages.
SameMapping(x, y) == x.kind = y.kind /\ Range(x.entries) = Range(y.entries)

\* C8: the directory being unchanged, every successful build saves the same
\* mapping as the successful build before it, whatever the order in which
\* the tasks completed.
C8_RebuildSameCorpus ==
    [][lastSaved # NoFile => SameMapping(lastSaved, lastSaved')]_vars

\* A second build is about to save its corpus in another key order than
\* the first.
C8_Witness ==
    /\ pc = "parsing"
    /\ PoolDone
    /\ lastSaved # NoFile
    /\ Len(corpus) >= 2
    /\ JsonDump(corpus) # lastSaved

(* ----------------------- C9 ------------------------------------------- *)

\* C9: under fair scheduling a build that has dispatched its tasks comes to
\* an end; it ends only after every task has been collected, in "saved"
\* (index written, flag true) or "failed to save"; a build without files
\* ends at once with no write; a failing extraction stops nothing.
C9_BuildTerminates ==
    /\ (pc = "parsing") ~>
          (pc = "idle" /\ status_text \in {"Index Built Successfully.",
                                          "Error building search index."})
    /\ [][(pc = "parsing" /\ pc' = "idle") =>
             /\ PoolDone /\ completed = total_files
             /\ \/ /\ status_text' = "Index Built Successfully."
                   /\ corpus_built' = TRUE
                   /\ indexFile' = JsonDump(corpus)
                \/ /\ status_text' = "Error building search index."
                   /\ corpus_built' = corpus_built]_vars
    /\ [][(pc = "idle" /\ status_text' # "") =>
             \/ dir = {} /\ pc' = "idle" /\ indexFile' = indexFile
                   /\ status_text' = "No PDF files found to index."
             \/ dir # {} /\ pc' = "parsing"
                   /\ DOMAIN task' = dir]_vars

C9_Witness ==
    /\ pc = "idle"
    /\ status_text = "Index Built Successfully."
    /\ {"c.pdf", "d.pdf"} \subseteq dir
    /\ "a/1.pdf" \in DictKeys(corpus)

(* ----------------------- C10 ------------------------------------------ *)

\* C10: once a build has succeeded, whenever corpus_built is true the index
\* file holds the complete corpus the most recent successful build wrote.
C10_FlagImpliesCompleteIndex ==
    (corpus_built = TRUE /\ lastSaved # NoFile) => indexFile = lastSaved

====
